---- MODULE Spec2Model ----
(***************************************************************************)
(* HttpJsNorm (src/service_inspectors/http_inspect/http_js_norm.cc):       *)
(* the scan loop of HttpJsNorm::normalize over one HTTP body, with the     *)
(* one-time configuration that builds the decoder and the two matchers.    *)
(* Bytes are one-character strings; a buffer is a sequence of bytes; a     *)
(* pointer into the body is its 0-based offset from input.start().         *)
(***************************************************************************)
EXTENDS Integers, Sequences, FiniteSets, TLC

\* ------------------------------------------------------------------ bounds
\* A body is the concatenation of at most MaxSegs segments.
MaxSegs == 4
\* The decoder stops after 0..MaxStep bytes, or at the end of its source.
MaxStep == 1
\* max_javascript_whitespaces handed to the constructor.
MaxWhitespaces == 1
\* Threads that call configure on the one object, and calls each may make.
MaxThreads == 2
MaxCalls == 2
\* AtomSplitter: scans looked at, largest segment, largest size argument and
\* largest flush-bucket size.
MaxScans == 4
MaxLen == 3
MaxBase == 1
MaxBucket == 2

\* --------------------------------------------------------------- constants
NULL == -1
MAX_ALLOWED_OBFUSCATION == 1
UINT16 == 65536

JS_JAVASCRIPT == "JS_JAVASCRIPT"
HTML_JS == "HTML_JS"
HTML_EMA == "HTML_EMA"
HTML_VB == "HTML_VB"

ALERT_SPACES_EXCEEDED == "ALERT_SPACES_EXCEEDED"
ALERT_LEVELS_EXCEEDED == "ALERT_LEVELS_EXCEEDED"
ALERT_MIXED_ENCODINGS == "ALERT_MIXED_ENCODINGS"
Alerts == {ALERT_SPACES_EXCEEDED, ALERT_LEVELS_EXCEEDED, ALERT_MIXED_ENCODINGS}

INF_JS_OBFUSCATION_EXCD == "INF_JS_OBFUSCATION_EXCD"
INF_JS_EXCESS_WS == "INF_JS_EXCESS_WS"
INF_MIXED_ENCODINGS == "INF_MIXED_ENCODINGS"
EVENT_JS_OBFUSCATION_EXCD == "EVENT_JS_OBFUSCATION_EXCD"
EVENT_JS_EXCESS_WS == "EVENT_JS_EXCESS_WS"
EVENT_MIXED_ENCODINGS == "EVENT_MIXED_ENCODINGS"

\* The keyword that opens a script block, and the three type keywords.
script_start == <<"<", "S", "C", "R", "I", "P", "T">>
script_start_length == Len(script_start)
KwJavascript == <<"J", "A", "V", "A", "S", "C", "R", "I", "P", "T">>
KwEcmascript == <<"E", "C", "M", "A", "S", "C", "R", "I", "P", "T">>
KwVbscript == <<"V", "B", "S", "C", "R", "I", "P", "T">>

\* html_patterns[]: name and search_id of each type keyword.
html_patterns ==
    { <<KwJavascript, HTML_JS>>, <<KwEcmascript, HTML_EMA>>, <<KwVbscript, HTML_VB>> }

\* ------------------------------------------------------------------ inputs
Segments == { script_start, <<">">>, KwJavascript, KwEcmascript, KwVbscript, <<"x">> }

RECURSIVE BodiesOf(_)
BodiesOf(n) ==
    IF n = 0 THEN { <<>> }
    ELSE LET prev == BodiesOf(n - 1)
         IN  prev \cup { b \o s : b \in prev, s \in Segments }

Bodies == BodiesOf(MaxSegs)

\* Bodies about as long as a 16-bit length can tell: a script tag, closed,
\* left open or of another language, and UINT16 - 1, UINT16 or UINT16 + 1
\* bytes behind it.
LongBodies ==
    { tg \o [i \in 1..n |-> "x"] :
        tg \in { script_start \o <<">">>, script_start,
                 script_start \o KwVbscript \o <<">">> },
        n \in { UINT16 - 1, UINT16, UINT16 + 1 } }

Min(S) == CHOOSE x \in S : \A y \in S : x <= y

\* ------------------------------------------------------------------- state
VARIABLES
    normalization_depth,        \* constructor argument
    max_javascript_whitespaces, \* constructor argument
    configure_once,             \* the one-time guard of configure()
    normalizer,                 \* "null", "JsNorm" or "UtilJsNorm"
    javascript_search_mpse,     \* patterns of the opener matcher ({} = nullptr)
    htmltype_search_mpse,       \* patterns of the type matcher ({} = nullptr)
    input,                      \* the body handed to normalize
    pc,                         \* position of the call
    ptr,                        \* scan cursor, offset into input
    index,                      \* output cursor
    js_present,                 \* document-level found flag
    js,                         \* JSState of the call
    buffer,                     \* bytes written to the scratch buffer so far
    buffer_state,               \* "none", "allocated", "deleted" or "owned"
    output,                     \* the output Field
    infractions,                \* infraction bits added by the call
    events,                     \* create_event calls of the call, in order
    decoder_calls,              \* normalizer->normalize calls: source offset, lengths
    tag                         \* locals of the latest loop iteration, and how it ended

\* Threads inside HttpJsNorm::configure
VARIABLES
    thread_pc,                  \* per thread: the line of configure it is about to run
    thread_calls,               \* per thread: calls of configure begun
    constructions,              \* how many times lines 101-131 built the members
    prepped                     \* the matchers whose prep() has run

\* AtomSplitter
VARIABLES
    base,                       \* size argument of the constructor
    min,                        \* flush threshold
    bytes,                      \* bytes scanned since the last reset
    segs,                       \* segments scanned since the last reset
    status,                     \* what the latest scan returned
    fp,                         \* *fp after the latest scan
    scanned                     \* the len of every scan since the last reset

threadVars == << thread_pc, thread_calls, constructions, prepped >>

atomVars == << base, min, bytes, segs, status, fp, scanned >>

vars == << normalization_depth, max_javascript_whitespaces, configure_once, normalizer,
           javascript_search_mpse, htmltype_search_mpse, input, pc, ptr, index,
           js_present, js, buffer, buffer_state, output, infractions, events,
           decoder_calls, tag, threadVars, atomVars >>

confVars == << normalization_depth, max_javascript_whitespaces, configure_once,
               normalizer, javascript_search_mpse, htmltype_search_mpse >>

end == Len(input)

\* ---------------------------------------------------------------- matchers
\* pat occurs in s at 0-based offset k.
Occurs(s, pat, k) ==
    /\ k >= 0
    /\ k + Len(pat) <= Len(s)
    /\ \A i \in 1..Len(pat) : s[k + i] = pat[i]

\* Every match of a pattern of mpse inside the n bytes of s that start at
\* offset from: the offset just past the match, relative to from, and the
\* pattern's id.
MpseMatches(mpse, s, from, n) ==
    { [index |-> k + Len(p[1]) - from, id |-> p[2]] :
        <<k, p>> \in { kp \in (from..(from + n)) \X mpse :
                         /\ Occurs(s, kp[2][1], kp[1])
                         /\ kp[1] + Len(kp[2][1]) <= from + n } }

\* Mutant: the callback returns 0, the search runs on and the last match stays.
LastMatch(M) == CHOOSE m \in M : \A o \in M : m.index >= o.index

\* The search hands matches to the callback in the order in which they end.
FirstMatch(M) == CHOOSE m \in M : \A o \in M : m.index <= o.index

\* Both callbacks return non-zero, which stops the search at the first match:
\* find() returns the number of matches reported, and the match the callback saw.
SearchToolFind(mpse, s, from, n) ==
    LET M == MpseMatches(mpse, s, from, n)
    IN  IF M = {} THEN [count |-> 0, index |-> 0, id |-> "none"]
        ELSE LET m == FirstMatch(M)
             IN  [count |-> 1, index |-> m.index, id |-> m.id]

\* *index_ptr = index - script_start_length
search_js_found(idx) == idx - script_start_length

\* *id_ptr = id
search_html_found(id) == id

\* Offset of the first ">" among the n bytes of s from offset from, or NULL.
SnortStrnStr(s, from, n) ==
    LET hits == { k \in from..(from + n - 1) : s[k + 1] = ">" }
    IN  IF hits = {} THEN NULL ELSE Min(hits)

\* ------------------------------------------------- one iteration of the scan
\* find() of the opener matcher on [p, end)
OpenerFind(p) == SearchToolFind(javascript_search_mpse, input, p, end - p)

\* const char* js_start = ptr + mindex
TagStart(p) == p + search_js_found(OpenerFind(p).index)

\* angle_bracket
AngleBracket(p) == SnortStrnStr(input, TagStart(p), end - TagStart(p))

\* angle_bracket == nullptr || (end - angle_bracket) == 0
NoTerminator(p) == AngleBracket(p) = NULL \/ end - AngleBracket(p) = 0

\* Mutant: the HTML_JS case forgets js_present = true.
TypeSwitch_FlagForgotten(mid) ==
    IF mid = HTML_JS THEN [js_present |-> FALSE, type_js |-> TRUE]
    ELSE [js_present |-> FALSE, type_js |-> FALSE]

\* Mutant: the default case of the switch treats the block as JavaScript.
TypeSwitch_DefaultJs(mid) == [js_present |-> TRUE, type_js |-> TRUE]

\* The switch on the id the type matcher reported.
TypeSwitch(mid) ==
    IF mid = HTML_JS THEN [js_present |-> TRUE, type_js |-> TRUE]
    ELSE [js_present |-> FALSE, type_js |-> FALSE]

\* Mutant: a tag without a type keyword is not taken for JavaScript.
Classify_StrictDefault(p) ==
    LET js_start == TagStart(p)
        angle_bracket == AngleBracket(p)
    IN  IF angle_bracket > js_start
        THEN LET f == SearchToolFind(htmltype_search_mpse, input, js_start,
                                     angle_bracket - js_start)
                 mid == search_html_found(f.id)
             IN  IF f.count > 0
                 THEN [ type_js |-> TypeSwitch(mid).type_js,
                        js_present |-> TypeSwitch(mid).js_present,
                        js_start |-> angle_bracket + 1 ]
                 ELSE [ type_js |-> FALSE, js_present |-> FALSE,
                        js_start |-> angle_bracket + 1 ]
        ELSE [ type_js |-> FALSE, js_present |-> FALSE, js_start |-> js_start ]

\* Mutant: js_start = angle_bracket, the + 1 is missing.
Classify_AtBracket(p) ==
    LET js_start == TagStart(p)
        angle_bracket == AngleBracket(p)
    IN  IF angle_bracket > js_start
        THEN LET f == SearchToolFind(htmltype_search_mpse, input, js_start,
                                     angle_bracket - js_start)
                 mid == search_html_found(f.id)
             IN  IF f.count > 0
                 THEN [ type_js |-> TypeSwitch(mid).type_js,
                        js_present |-> TypeSwitch(mid).js_present,
                        js_start |-> angle_bracket ]
                 ELSE [ type_js |-> TRUE, js_present |-> TRUE,
                        js_start |-> angle_bracket ]
        ELSE [ type_js |-> FALSE, js_present |-> FALSE, js_start |-> js_start ]

\* Mutant: js_start is not moved past the tag.
Classify_NoAdvance(p) ==
    LET js_start == TagStart(p)
        angle_bracket == AngleBracket(p)
    IN  IF angle_bracket > js_start
        THEN LET f == SearchToolFind(htmltype_search_mpse, input, js_start,
                                     angle_bracket - js_start)
                 mid == search_html_found(f.id)
             IN  IF f.count > 0
                 THEN [ type_js |-> TypeSwitch(mid).type_js,
                        js_present |-> TypeSwitch(mid).js_present,
                        js_start |-> js_start ]
                 ELSE [ type_js |-> TRUE, js_present |-> TRUE,
                        js_start |-> js_start ]
        ELSE [ type_js |-> FALSE, js_present |-> FALSE, js_start |-> js_start ]

\* type_js, whether js_present is set, and js_start after the classification.
Classify(p) ==
    LET js_start == TagStart(p)
        angle_bracket == AngleBracket(p)
    IN  IF angle_bracket > js_start
        THEN LET f == SearchToolFind(htmltype_search_mpse, input, js_start,
                                     angle_bracket - js_start)
                 mid == search_html_found(f.id)
             IN  IF f.count > 0
                 THEN [ type_js |-> TypeSwitch(mid).type_js,
                        js_present |-> TypeSwitch(mid).js_present,
                        js_start |-> angle_bracket + 1 ]
                 ELSE [ type_js |-> TRUE, js_present |-> TRUE,
                        js_start |-> angle_bracket + 1 ]
        ELSE [ type_js |-> FALSE, js_present |-> FALSE, js_start |-> js_start ]

\* Mutant: the capacity check before the copy is missing.
SpanTooLong_Unchecked(js_start, p, idx) == FALSE

\* (js_start - ptr) > (input.length() - index)
SpanTooLong(js_start, p, idx) == (js_start - p) > (Len(input) - idx)

\* The bytes of s at offsets from .. to-1.
Bytes(s, from, to) == SubSeq(s, from + 1, to)

\* memmove_s(dest + index, dmax, src, smax): appends the bytes when they fit.
memmove_s(buf, dmax, src) == IF Len(src) <= dmax THEN buf \o src ELSE buf

\* (uint16_t) of a non-negative length
Uint16(n) == n % UINT16

\* ----------------------------------------------------------------- decoder
\* What one decoder call may do to the JSState: whitespace and nesting levels
\* it charges to the budgets, and whether it saw mixed encodings.
DecodeEffects ==
    { [ws |-> 0, lv |-> 0, mixed |-> FALSE],
      [ws |-> 1, lv |-> 0, mixed |-> FALSE],
      [ws |-> MaxWhitespaces + 1, lv |-> 0, mixed |-> FALSE],
      [ws |-> 0, lv |-> MAX_ALLOWED_OBFUSCATION + 1, mixed |-> FALSE],
      [ws |-> 0, lv |-> 0, mixed |-> TRUE],
      [ws |-> MaxWhitespaces + 1, lv |-> MAX_ALLOWED_OBFUSCATION + 1, mixed |-> TRUE] }

\* JSNormalizeDecode on the JSState: budgets go down, alert bits are or-ed in.
ApplyEffect(s, e) ==
    [ allowed_spaces |-> IF e.ws > s.allowed_spaces THEN 0 ELSE s.allowed_spaces - e.ws,
      allowed_levels |-> IF e.lv > s.allowed_levels THEN 0 ELSE s.allowed_levels - e.lv,
      alerts |-> s.alerts
                 \cup (IF e.ws > s.allowed_spaces THEN {ALERT_SPACES_EXCEEDED} ELSE {})
                 \cup (IF e.lv > s.allowed_levels THEN {ALERT_LEVELS_EXCEEDED} ELSE {})
                 \cup (IF e.mixed THEN {ALERT_MIXED_ENCODINGS} ELSE {}) ]

\* Mutant: each block is decoded with a JSState of its own, set up afresh.
DecoderState_Fresh(variant, s, e) ==
    IF variant = "UtilJsNorm"
    THEN ApplyEffect([allowed_spaces |-> MaxWhitespaces,
                      allowed_levels |-> MAX_ALLOWED_OBFUSCATION, alerts |-> {}], e)
    ELSE s

\* The JSState after a decoder call on a block with the features e:
\* UtilJsNorm::normalize hands the JSState to JSNormalizeDecode;
\* JsNorm::normalize drops it and hands norm_depth to JSNormalizer::normalize.
DecoderState(variant, s, e) ==
    IF variant = "UtilJsNorm" THEN ApplyEffect(s, e) ELSE s

\* Where the decoder may leave *ptr: after 0..MaxStep bytes, or at the end
\* of the srclen bytes it was given.
DecoderStops(srclen) == { c \in 0..srclen : c <= MaxStep \/ c = srclen }

\* How many bytes the decoder may report in *bytes_copied after consuming c
\* bytes with room for destlen: it never writes past destlen; a decoder that
\* only removes bytes writes at most c, the other may fill the room left.
DecoderCopied(c, destlen, expanding) ==
    { n \in 0..destlen : \/ n = 0
                         \/ n = c
                         \/ n = c - 1
                         \/ (expanding /\ n = destlen) }

\* The bytes the decoder wrote: the bytes it consumed, cut or padded to n.
Decoded(consumed, n) ==
    IF n <= Len(consumed) THEN SubSeq(consumed, 1, n)
    ELSE consumed \o [i \in 1..(n - Len(consumed)) |-> "?"]

\* ----------------------------------------------------------------- actions
\* No loop iteration yet.
NoTag ==
    [ from |-> 0, js_start |-> 0, angle_bracket |-> NULL, mid |-> "none",
      outcome |-> "none" ]

\* The object after its constructor, and the locals of a call not yet begun.
HttpJsNorm_ctor ==
    /\ normalization_depth \in {0, 1}
    /\ max_javascript_whitespaces = MaxWhitespaces
    /\ configure_once = FALSE
    /\ normalizer = "null"
    /\ javascript_search_mpse = {}
    /\ htmltype_search_mpse = {}
    /\ pc = "constructed"
    /\ ptr = 0
    /\ index = 0
    /\ js_present = FALSE
    /\ js = [allowed_spaces |-> 0, allowed_levels |-> 0, alerts |-> {}]
    /\ buffer = <<>>
    /\ buffer_state = "none"
    /\ output = [kind |-> "unset", length |-> 0, bytes |-> <<>>, own |-> FALSE]
    /\ infractions = {}
    /\ events = <<>>
    /\ decoder_calls = <<>>
    /\ tag = NoTag

Threads == 1..MaxThreads

\* No thread is inside configure.
ThreadsIdle ==
    /\ thread_pc = [t \in Threads |-> "idle"]
    /\ thread_calls = [t \in Threads |-> 0]
    /\ constructions = 0
    /\ prepped = {}

\* bytes = segs = 0
AtomSplitter_reset(b, s) == b = 0 /\ s = 0

\* No splitter has been constructed.
NoSplitter ==
    /\ AtomSplitter_reset(bytes, segs)
    /\ base = 0
    /\ min = 0
    /\ status = "none"
    /\ fp = NULL
    /\ scanned = <<>>

Init == HttpJsNorm_ctor /\ input \in Bodies /\ ThreadsIdle /\ NoSplitter

localVars == << ptr, index, js_present, js, buffer, buffer_state, output, infractions,
                events, decoder_calls >>

callVars == << localVars, tag >>

\* Mutant: the two backends are taken for one another.
Variant_Swapped(depth) == IF depth # 0 THEN "UtilJsNorm" ELSE "JsNorm"

\* if ( normalization_depth != 0 ) ... new JsNorm ... else ... new UtilJsNorm
Variant(depth) == IF depth # 0 THEN "JsNorm" ELSE "UtilJsNorm"

\* HttpJsNorm::configure
Configure ==
    /\ pc = "constructed"
    /\ pc' = "configured"
    /\ IF configure_once
       THEN UNCHANGED << configure_once, normalizer, javascript_search_mpse,
                         htmltype_search_mpse, constructions, prepped >>
       ELSE /\ normalizer' = Variant(normalization_depth)
            /\ javascript_search_mpse' = { <<script_start, JS_JAVASCRIPT>> }
            /\ htmltype_search_mpse' = html_patterns
            /\ constructions' = constructions + 1
            /\ prepped' = { "javascript_search_mpse", "htmltype_search_mpse" }
            /\ configure_once' = TRUE
    /\ UNCHANGED << normalization_depth, max_javascript_whitespaces, input, callVars,
                    thread_pc, thread_calls, atomVars >>

\* ------------------------------------------ configure, one line at a time
\* What a step of a thread inside configure leaves alone.
cfgFrame == << normalization_depth, max_javascript_whitespaces, input, pc, callVars,
               atomVars >>

\* Thread t calls configure.
CfgCall(t) ==
    /\ pc = "constructed"
    /\ thread_pc[t] = "idle"
    /\ thread_calls[t] < MaxCalls
    /\ thread_pc' = [thread_pc EXCEPT ![t] = "check"]
    /\ thread_calls' = [thread_calls EXCEPT ![t] = @ + 1]
    /\ UNCHANGED << cfgFrame, configure_once, normalizer, javascript_search_mpse,
                    htmltype_search_mpse, constructions, prepped >>

\* Mutant: the guard is not looked at.
CfgCheck_NoGuard(t) ==
    /\ thread_pc[t] = "check"
    /\ thread_pc' = [thread_pc EXCEPT ![t] = "new_normalizer"]
    /\ UNCHANGED << cfgFrame, thread_calls, configure_once, normalizer,
                    javascript_search_mpse, htmltype_search_mpse, constructions, prepped >>

\* if ( configure_once ) return;
CfgCheck(t) ==
    /\ thread_pc[t] = "check"
    /\ thread_pc' = [thread_pc EXCEPT ![t] = IF configure_once THEN "idle"
                                             ELSE "new_normalizer"]
    /\ UNCHANGED << cfgFrame, thread_calls, configure_once, normalizer,
                    javascript_search_mpse, htmltype_search_mpse, constructions, prepped >>

\* normalizer = new JsNorm(...) or new UtilJsNorm
CfgNewNormalizer(t) ==
    /\ thread_pc[t] = "new_normalizer"
    /\ normalizer' = Variant(normalization_depth)
    /\ constructions' = constructions + 1
    /\ thread_pc' = [thread_pc EXCEPT ![t] = "new_mpse"]
    /\ UNCHANGED << cfgFrame, thread_calls, configure_once, javascript_search_mpse,
                    htmltype_search_mpse, prepped >>

\* javascript_search_mpse = new SearchTool; htmltype_search_mpse = new SearchTool
CfgNewMpse(t) ==
    /\ thread_pc[t] = "new_mpse"
    /\ javascript_search_mpse' = {}
    /\ htmltype_search_mpse' = {}
    /\ prepped' = {}
    /\ thread_pc' = [thread_pc EXCEPT ![t] = "js_mpse"]
    /\ UNCHANGED << cfgFrame, thread_calls, configure_once, normalizer, constructions >>

\* javascript_search_mpse->add(script_start, ...); javascript_search_mpse->prep()
CfgJsMpse(t) ==
    /\ thread_pc[t] = "js_mpse"
    /\ javascript_search_mpse' =
           javascript_search_mpse \cup { <<script_start, JS_JAVASCRIPT>> }
    /\ prepped' = prepped \cup { "javascript_search_mpse" }
    /\ thread_pc' = [thread_pc EXCEPT ![t] = "html_mpse"]
    /\ UNCHANGED << cfgFrame, thread_calls, configure_once, normalizer,
                    htmltype_search_mpse, constructions >>

\* the loop of htmltype_search_mpse->add(...); htmltype_search_mpse->prep()
CfgHtmlMpse(t) ==
    /\ thread_pc[t] = "html_mpse"
    /\ htmltype_search_mpse' = htmltype_search_mpse \cup html_patterns
    /\ prepped' = prepped \cup { "htmltype_search_mpse" }
    /\ thread_pc' = [thread_pc EXCEPT ![t] = "set"]
    /\ UNCHANGED << cfgFrame, thread_calls, configure_once, normalizer,
                    javascript_search_mpse, constructions >>

\* configure_once = true;
CfgSet(t) ==
    /\ thread_pc[t] = "set"
    /\ configure_once' = TRUE
    /\ thread_pc' = [thread_pc EXCEPT ![t] = "idle"]
    /\ UNCHANGED << cfgFrame, thread_calls, normalizer, javascript_search_mpse,
                    htmltype_search_mpse, constructions, prepped >>

\* Mutant: the call takes its whitespace budget out of the object's field.
NormalizeBegin_OnObject ==
    /\ pc = "configured"
    /\ pc' = "loop"
    /\ js_present' = FALSE
    /\ index' = 0
    /\ ptr' = 0
    /\ js' = [ allowed_spaces |-> max_javascript_whitespaces,
               allowed_levels |-> MAX_ALLOWED_OBFUSCATION,
               alerts |-> {} ]
    /\ max_javascript_whitespaces' = 0
    /\ buffer' = <<>>
    /\ buffer_state' = "allocated"
    /\ UNCHANGED << normalization_depth, configure_once, normalizer,
                    javascript_search_mpse, htmltype_search_mpse, input, output,
                    infractions, events, decoder_calls, tag, threadVars, atomVars >>

\* HttpJsNorm::normalize, up to the scan loop
NormalizeBegin ==
    /\ pc = "configured"
    /\ pc' = "loop"
    /\ js_present' = FALSE
    /\ index' = 0
    /\ ptr' = 0
    /\ js' = [ allowed_spaces |-> max_javascript_whitespaces,
               allowed_levels |-> MAX_ALLOWED_OBFUSCATION,
               alerts |-> {} ]
    /\ buffer' = <<>>
    /\ buffer_state' = "allocated"
    /\ UNCHANGED << confVars, threadVars, atomVars, input, output, infractions, events, decoder_calls, tag >>

\* while (ptr < end) is false
LoopExit ==
    /\ pc = "loop"
    /\ ~(ptr < end)
    /\ pc' = "final"
    /\ UNCHANGED << confVars, threadVars, atomVars, input, callVars >>

\* the opener matcher finds nothing: break
NoScriptFound ==
    /\ pc = "loop"
    /\ ptr < end
    /\ ~(OpenerFind(ptr).count > 0)
    /\ pc' = "final"
    /\ tag' = [NoTag EXCEPT !.from = ptr, !.outcome = "no_script"]
    /\ UNCHANGED << confVars, threadVars, atomVars, input, localVars >>

\* no ">" after the opener: break
NoAngleBracket ==
    /\ pc = "loop"
    /\ ptr < end
    /\ OpenerFind(ptr).count > 0
    /\ NoTerminator(ptr)
    /\ pc' = "final"
    /\ tag' = [NoTag EXCEPT !.from = ptr, !.js_start = TagStart(ptr),
                            !.angle_bracket = AngleBracket(ptr), !.outcome = "no_angle"]
    /\ UNCHANGED << confVars, threadVars, atomVars, input, localVars >>

\* The locals of the iteration that starts at p, after the classification.
TagOf(p, outcome) ==
    [ from |-> p, js_start |-> TagStart(p), angle_bracket |-> AngleBracket(p),
      mid |-> SearchToolFind(htmltype_search_mpse, input, TagStart(p),
                             AngleBracket(p) - TagStart(p)).id,
      outcome |-> outcome ]

\* The tag is classified; the span up to js_start is saved unless it does not
\* fit, which ends the loop. to is where the call goes after the save.
SaveTag(type_js, to) ==
    /\ pc = "loop"
    /\ ptr < end
    /\ OpenerFind(ptr).count > 0
    /\ ~NoTerminator(ptr)
    /\ LET c == Classify(ptr)
       IN  /\ c.type_js = type_js
           /\ js_present' = (js_present \/ c.js_present)
           /\ IF c.js_start > ptr /\ SpanTooLong(c.js_start, ptr, index)
              THEN /\ pc' = "final"
                   /\ tag' = TagOf(ptr, "capacity")
                   /\ UNCHANGED << buffer, index, ptr >>
              ELSE /\ pc' = to
                   /\ tag' = TagOf(ptr, IF type_js THEN "js" ELSE "not_js")
                   /\ ptr' = c.js_start
                   /\ IF c.js_start > ptr
                      THEN /\ buffer' = memmove_s(buffer, Len(input) - index,
                                                  Bytes(input, ptr, c.js_start))
                           /\ index' = index + (c.js_start - ptr)
                      ELSE UNCHANGED << buffer, index >>
    /\ UNCHANGED << confVars, threadVars, atomVars, input, js, buffer_state, output, infractions, events,
                    decoder_calls >>

\* if (!type_js) continue
TagNotJs == SaveTag(FALSE, "loop")

\* type_js: on to the decoder call
TagJs == SaveTag(TRUE, "decode")

\* normalizer->normalize(...); index += bytes_copied
\* A call is logged with its arguments, the bytes it consumed and reported as
\* copied, and the nesting levels of the block it was given.
Decode(expanding) ==
    /\ pc = "decode"
    /\ LET srclen == Uint16(end - ptr)
           destlen == Uint16(Len(input) - index)
       IN  \E c \in DecoderStops(srclen) :
           \E bytes_copied \in DecoderCopied(c, destlen, expanding) :
           \E e \in DecodeEffects :
              /\ decoder_calls' = Append(decoder_calls,
                     [src |-> ptr, srclen |-> srclen, dst |-> index, destlen |-> destlen,
                      consumed |-> c, copied |-> bytes_copied, levels |-> e.lv])
              /\ ptr' = ptr + c
              /\ buffer' = buffer \o Decoded(Bytes(input, ptr, ptr + c), bytes_copied)
              /\ index' = index + bytes_copied
              /\ js' = DecoderState(normalizer, js, e)
    /\ pc' = "loop"
    /\ UNCHANGED << confVars, threadVars, atomVars, input, js_present, buffer_state, output, infractions,
                    events, tag >>

\* The infraction and the event of each alert bit, in the order of the checks.
AlertReports ==
    << [alert |-> ALERT_LEVELS_EXCEEDED, inf |-> INF_JS_OBFUSCATION_EXCD,
        event |-> EVENT_JS_OBFUSCATION_EXCD],
       [alert |-> ALERT_SPACES_EXCEEDED, inf |-> INF_JS_EXCESS_WS,
        event |-> EVENT_JS_EXCESS_WS],
       [alert |-> ALERT_MIXED_ENCODINGS, inf |-> INF_MIXED_ENCODINGS,
        event |-> EVENT_MIXED_ENCODINGS] >>

\* Mutant: only if (js.alerts) is tested, not the single bits.
Reported_AnyAlert(a) == IF a = {} THEN << >> ELSE AlertReports

\* The reports of the alert bits set in a.
Reported(a) == SelectSeq(AlertReports, LAMBDA r : r.alert \in a)

\* Mutant: > for >= in the capacity test of the trailing copy.
TrailingFits_Strict(p, idx) == (p < end) /\ ((Len(input) - idx) > (end - p))

\* (ptr < end) && ((input.length() - index) >= (end - ptr))
TrailingFits(p, idx) == (p < end) /\ ((Len(input) - idx) >= (end - p))

\* after the loop: the trailing bytes, the reports, the output
Finalize ==
    /\ pc = "final"
    /\ pc' = "done"
    /\ IF js_present
       THEN LET fits == TrailingFits(ptr, index)
                buf == IF fits
                       THEN memmove_s(buffer, Len(input) - index, Bytes(input, ptr, end))
                       ELSE buffer
                idx == IF fits THEN index + (end - ptr) ELSE index
                rep == Reported(js.alerts)
            IN  /\ buffer' = buf
                /\ index' = idx
                /\ infractions' = infractions \cup { rep[i].inf : i \in 1..Len(rep) }
                /\ events' = events \o [i \in 1..Len(rep) |-> rep[i].event]
                /\ output' = [kind |-> "buffer", length |-> idx, bytes |-> buf,
                              own |-> TRUE]
                /\ buffer_state' = "owned"
       ELSE /\ buffer_state' = "deleted"
            /\ output' = [kind |-> "input", length |-> Len(input), bytes |-> input,
                          own |-> FALSE]
            /\ UNCHANGED << buffer, index, infractions, events >>
    /\ UNCHANGED << confVars, threadVars, atomVars, input, ptr, js_present, js, decoder_calls, tag >>

Scan ==
    \/ Configure
    \/ NormalizeBegin
    \/ LoopExit
    \/ NoScriptFound
    \/ NoAngleBracket
    \/ TagNotJs
    \/ TagJs
    \/ Finalize

\* The decoder only removes bytes (the contract the decoders are written to).
Next == Scan \/ Decode(FALSE)

\* The decoder is bound by destlen alone.
NextAnyDecoder == Scan \/ Decode(TRUE)

\* ------------------------------------------------------------ AtomSplitter
\* What FlushBucket::get_size() may return.
FlushBucketSizes == 1..MaxBucket

\* AtomSplitter::AtomSplitter(bool b, uint32_t sz)
AtomSplitter_ctor(sz, size) ==
    /\ AtomSplitter_reset(bytes, segs)
    /\ base = sz
    /\ min = base + size

\* Mutant: the first segment may flush as well.
ShouldFlush_AnySegment(s, b, m) == s >= 1 /\ b >= m

\* segs >= 2 && bytes >= min
ShouldFlush(s, b, m) == s >= 2 /\ b >= m

\* AtomSplitter::scan
AtomScan(len) ==
    /\ segs < MaxScans
    /\ bytes' = bytes + len
    /\ segs' = segs + 1
    /\ IF ShouldFlush(segs', bytes', min)
       THEN fp' = len /\ status' = "FLUSH"
       ELSE fp' = NULL /\ status' = "SEARCH"
    /\ scanned' = Append(scanned, len)
    /\ UNCHANGED << base, min, confVars, threadVars, input, pc, callVars >>

\* AtomSplitter::update
AtomUpdate(size) ==
    /\ AtomSplitter_reset(bytes', segs')
    /\ min' = base + size
    /\ status' = "none"
    /\ fp' = NULL
    /\ scanned' = <<>>
    /\ UNCHANGED << base, confVars, threadVars, input, pc, callVars >>

NextAtom ==
    \/ \E len \in 0..MaxLen : AtomScan(len)
    \/ \E size \in FlushBucketSizes : AtomUpdate(size)

\* Threads call configure on one object, by themselves and again.
NextConfigure ==
    \E t \in Threads :
        \/ CfgCall(t)
        \/ CfgCheck(t)
        \/ CfgNewNormalizer(t)
        \/ CfgNewMpse(t)
        \/ CfgJsMpse(t)
        \/ CfgHtmlMpse(t)
        \/ CfgSet(t)

Spec == Init /\ [][Next]_vars

InitConfigure == Init /\ input = <<>>

SpecConfigure == InitConfigure /\ [][NextConfigure]_vars

InitLongBody == HttpJsNorm_ctor /\ input \in LongBodies /\ ThreadsIdle /\ NoSplitter

SpecLongBody == InitLongBody /\ [][Next]_vars

\* A splitter just constructed, of any size argument and bucket size.
InitAtom ==
    /\ HttpJsNorm_ctor
    /\ normalization_depth = 0
    /\ input = <<>>
    /\ ThreadsIdle
    /\ \E sz \in 0..MaxBase : \E size \in FlushBucketSizes : AtomSplitter_ctor(sz, size)
    /\ status = "none"
    /\ fp = NULL
    /\ scanned = <<>>

SpecAtom == InitAtom /\ [][NextAtom]_vars

SpecAnyDecoder == Init /\ [][NextAnyDecoder]_vars

\* ------------------------------------------------------------------ claims
\* s holds the opening keyword somewhere.
HasOpener(s) == \E k \in 0..Len(s) : Occurs(s, script_start, k)

\* The decoder is, or was, called on the bytes that follow the ">" of the
\* latest tag.
InvokedAfterTag ==
    \/ pc = "decode" /\ ptr = tag.angle_bracket + 1
    \/ /\ pc # "decode"
       /\ decoder_calls # <<>>
       /\ decoder_calls[Len(decoder_calls)].src = tag.angle_bracket + 1

\* C1: the output cursor index stays within 0..input.length() after every
\* verbatim copy, every decoder call and the trailing copy, the buffer holds
\* exactly index bytes, and the emitted result is never longer than the input;
\* the decoder is only assumed to report bytes_copied within 0..destlen.
C1_IndexWithinInput ==
    /\ 0 <= index
    /\ index <= Len(input)
    /\ Len(buffer) = index
    /\ output.kind # "unset" =>
          /\ output.length <= Len(input)
          /\ Len(output.bytes) = output.length

\* C1 witness: a decoder call filled the buffer to the input's length while
\* body bytes are still unscanned.
C1_Witness ==
    /\ pc = "loop"
    /\ decoder_calls # <<>>
    /\ index = Len(input)
    /\ ptr < end

\* C2: at the end of the call the output is the input field itself (not owned,
\* scratch buffer freed) exactly when no block was classified as JavaScript,
\* and the owned buffer of length index otherwise; a body without the opening
\* keyword comes back as the input with no infraction and no event.
C2_OutputChoice ==
    pc = "done" =>
        /\ (output.kind = "input") <=> ~js_present
        /\ decoder_calls # <<>> => output.kind = "buffer"
        /\ ~js_present =>
              /\ output = [kind |-> "input", length |-> Len(input), bytes |-> input,
                           own |-> FALSE]
              /\ buffer_state = "deleted"
        /\ js_present =>
              /\ output = [kind |-> "buffer", length |-> index, bytes |-> buffer,
                           own |-> TRUE]
              /\ buffer_state = "owned"
        /\ ~HasOpener(input) =>
              /\ output.kind = "input"
              /\ output.bytes = input
              /\ infractions = {}
              /\ events = <<>>

\* C2 witness: a non-empty body without the opening keyword has been returned.
C2_Witness ==
    /\ pc = "done"
    /\ Len(input) > 0
    /\ ~HasOpener(input)
    /\ output.kind = "input"

\* C3: a tag whose reported type keyword is JAVASCRIPT or ECMASCRIPT is
\* classified as JavaScript: the found flag is set and the decoder is invoked
\* on the bytes after the tag's ">".
C3_EcmaIsJavaScript ==
    (tag.outcome \in {"js", "not_js"} /\ tag.mid \in {HTML_JS, HTML_EMA}) =>
        /\ tag.outcome = "js"
        /\ js_present
        /\ InvokedAfterTag

\* The id the type matcher reports for the tag that the scan finds from p on.
ReportedType(p) ==
    SearchToolFind(htmltype_search_mpse, input, TagStart(p),
                   AngleBracket(p) - TagStart(p)).id

\* The loop is about to handle a terminated tag whose reported keyword is VBSCRIPT.
VbTagAhead ==
    /\ pc = "loop"
    /\ ptr < end
    /\ OpenerFind(ptr).count > 0
    /\ AngleBracket(ptr) # NULL
    /\ ReportedType(ptr) = HTML_VB

\* C4: a tag whose first type keyword is VBSCRIPT is copied verbatim up to and
\* including its ">", the cursor moves just past the ">", the decoder is not
\* called, the found flag and the decode state stay as they were, and the scan
\* goes on from there; when no block was JavaScript the output is the input.
C4_VbTagPassedThrough ==
    /\ [][ VbTagAhead =>
             /\ pc' = "loop"
             /\ ptr' = AngleBracket(ptr) + 1
             /\ buffer' = buffer \o Bytes(input, ptr, AngleBracket(ptr) + 1)
             /\ index' = index + (AngleBracket(ptr) + 1 - ptr)
             /\ decoder_calls' = decoder_calls
             /\ js_present' = js_present
             /\ js' = js ]_vars
    /\ []( (pc = "done" /\ decoder_calls = <<>>) =>
             (output.kind = "input" /\ output.bytes = input) )

\* C4 witness: the last tag of the body was a VBSCRIPT tag and the call
\* returned the input.
C4_Witness ==
    /\ pc = "done"
    /\ tag.outcome = "not_js"
    /\ tag.mid = HTML_VB
    /\ ptr = tag.angle_bracket + 1
    /\ output.kind = "input"

\* None of the three type keywords lies inside the bytes from..to-1 of the body.
NoTypeKeyword(from, to) ==
    \A p \in html_patterns : \A k \in from..to :
        ~(Occurs(input, p[1], k) /\ k + Len(p[1]) <= to)

\* C5: a terminated tag whose text up to the ">" holds none of JAVASCRIPT,
\* ECMASCRIPT, VBSCRIPT (a bare tag included) is treated as JavaScript: the
\* found flag is set and the decoder is invoked on the bytes after the ">".
C5_UntypedIsJavaScript ==
    /\ tag.outcome # "capacity"
    /\ (tag.outcome \in {"js", "not_js"}
          /\ NoTypeKeyword(tag.js_start, tag.angle_bracket)) =>
          /\ tag.outcome = "js"
          /\ js_present
          /\ InvokedAfterTag

\* C5 witness: the decoder was called after a bare opening tag.
C5_Witness ==
    /\ tag.outcome = "js"
    /\ tag.angle_bracket = tag.js_start + script_start_length
    /\ decoder_calls # <<>>
    /\ decoder_calls[Len(decoder_calls)].src = tag.angle_bracket + 1

\* Where each type keyword inside the bytes from..to-1 ends, with its id.
KeywordEnds(from, to) ==
    { <<kp[1] + Len(kp[2][1]), kp[2][2]>> :
        kp \in { x \in (from..to) \X html_patterns :
                   Occurs(input, x[2][1], x[1]) /\ x[1] + Len(x[2][1]) <= to } }

\* The keyword of the latest tag that ends first.
FirstKeyword ==
    LET E == KeywordEnds(tag.js_start, tag.angle_bracket)
    IN  CHOOSE f \in E : \A o \in E : f[1] <= o[1]

\* C6: the first type keyword of the tag's text alone decides: JAVASCRIPT
\* first gives JavaScript, VBSCRIPT first gives not-JavaScript, whatever
\* keywords follow it, and it is the id the matcher reports.
C6_FirstKeywordDecides ==
    (tag.outcome \in {"js", "not_js"}
       /\ KeywordEnds(tag.js_start, tag.angle_bracket) # {}) =>
        /\ tag.mid = FirstKeyword[2]
        /\ FirstKeyword[2] = HTML_JS => tag.outcome = "js"
        /\ FirstKeyword[2] = HTML_VB => tag.outcome = "not_js"

\* C6 witness: VBSCRIPT followed by JAVASCRIPT in one tag, classified
\* not-JavaScript.
C6_Witness ==
    /\ tag.outcome = "not_js"
    /\ FirstKeyword[2] = HTML_VB
    /\ \E e \in KeywordEnds(tag.js_start, tag.angle_bracket) : e[2] = HTML_JS

\* The loop is about to find an opening keyword with no ">" after it.
UnterminatedAhead ==
    /\ pc = "loop"
    /\ ptr < end
    /\ OpenerFind(ptr).count > 0
    /\ AngleBracket(ptr) = NULL

\* C7: an opening keyword with no ">" up to the end of the body ends the loop
\* at once, with no classification, no decoder call and no change of the
\* alerts or of the bytes written; the call then hands back the bytes written
\* followed by the rest of the body from the cursor on, or the input itself
\* when no JavaScript block was found, and reports nothing for the condition.
C7_UnterminatedTagStops ==
    [][ /\ UnterminatedAhead =>
             /\ pc' = "final"
             /\ UNCHANGED << ptr, index, buffer, js, js_present, decoder_calls,
                             infractions, events, output >>
        /\ (pc = "final" /\ tag.outcome = "no_angle") =>
             /\ js' = js
             /\ js.alerts = {} => (infractions' = {} /\ events' = <<>>)
             /\ IF js_present
                THEN /\ output'.kind = "buffer"
                     /\ output'.bytes = buffer \o Bytes(input, ptr, end)
                     /\ output'.length = index + (end - ptr)
                ELSE /\ output'.kind = "input"
                     /\ output'.bytes = input ]_vars

\* C7 witness: after a decoded block an unterminated tag ended the scan and
\* the rest of the body was passed through.
C7_Witness ==
    /\ pc = "done"
    /\ tag.outcome = "no_angle"
    /\ js_present
    /\ ptr < end
    /\ output.kind = "buffer"
    /\ output.length = index

\* C8: a tag whose ">" is the last byte of the body is a hard stop: it is not
\* classified and the decoder is not invoked for it.
C8_LastByteBracketStops ==
    (tag.angle_bracket # NULL /\ tag.angle_bracket = Len(input) - 1) =>
        /\ tag.outcome = "no_angle"
        /\ \A i \in 1..Len(decoder_calls) : decoder_calls[i].src # Len(input)

\* C9: when the span up to a tag's ">" or the trailing bytes do not fit the
\* room left in the result buffer, the call returns the original input.
C9_CapacityAbortsToInput ==
    [][ ( /\ pc = "final"
          /\ \/ tag.outcome = "capacity"
             \/ js_present /\ ptr < end /\ (Len(input) - index) < (end - ptr) ) =>
           (output'.kind = "input" /\ output'.bytes = input) ]_vars

\* Occurrences of e in seq.
Count(seq, e) == Cardinality({ i \in 1..Len(seq) : seq[i] = e })

\* Each alert condition with its infraction and its event.
AlertKinds ==
    { <<ALERT_LEVELS_EXCEEDED, INF_JS_OBFUSCATION_EXCD, EVENT_JS_OBFUSCATION_EXCD>>,
      <<ALERT_SPACES_EXCEEDED, INF_JS_EXCESS_WS, EVENT_JS_EXCESS_WS>>,
      <<ALERT_MIXED_ENCODINGS, INF_MIXED_ENCODINGS, EVENT_MIXED_ENCODINGS>> }

\* C10: within one call each alert condition yields its infraction and its
\* event at most once; at the end a condition whose bit is set in the decode
\* state has been reported exactly once and one whose bit is clear never;
\* nothing is reported before the scan has ended.
C10_EachAlertOnce ==
    /\ Len(events) = Cardinality(infractions)
    /\ \A k \in AlertKinds :
          /\ Count(events, k[3]) <= 1
          /\ pc = "done" =>
                /\ Count(events, k[3]) = (IF k[1] \in js.alerts THEN 1 ELSE 0)
                /\ (k[2] \in infractions) <=> (k[1] \in js.alerts)
          /\ pc # "done" => (events = <<>> /\ infractions = {})

\* C10 witness: two blocks were decoded, the whitespace alert is set and was
\* reported once, the mixed-encodings alert is clear and was not reported.
C10_Witness ==
    /\ pc = "done"
    /\ Len(decoder_calls) >= 2
    /\ ALERT_SPACES_EXCEEDED \in js.alerts
    /\ ALERT_MIXED_ENCODINGS \notin js.alerts
    /\ Count(events, EVENT_JS_EXCESS_WS) = 1
    /\ Count(events, EVENT_MIXED_ENCODINGS) = 0

\* C11: with the depth-limited decoder (normalization_depth # 0), a block whose
\* nesting levels exceed the configured depth sets the obfuscation-exceeded
\* alert in the call's decode state, and the call reports its infraction and
\* its event.
C11_DepthExceededReported ==
    ( /\ pc = "done"
      /\ normalizer = "JsNorm"
      /\ \E i \in 1..Len(decoder_calls) : decoder_calls[i].levels > normalization_depth ) =>
        /\ ALERT_LEVELS_EXCEEDED \in js.alerts
        /\ INF_JS_OBFUSCATION_EXCD \in infractions
        /\ Count(events, EVENT_JS_OBFUSCATION_EXCD) = 1

\* The loop runs on: no step of a call is put off for ever.
SpecFair == SpecAnyDecoder /\ WF_vars(NextAnyDecoder)

\* C13: the scan cursor never decreases and stays within the body; an
\* iteration that saves a tag copies the bytes from the cursor on and leaves
\* the cursor just past the tag's ">", the decoder leaves it at or after that
\* position, and the ranges handed to the decoder follow one another without
\* overlap.
C13_CursorMonotone ==
    /\ [](0 <= ptr /\ ptr <= end)
    /\ [][ /\ ptr' >= ptr
           /\ (pc = "loop" /\ pc' \in {"loop", "decode"}) =>
                 /\ ptr' = AngleBracket(ptr) + 1
                 /\ ptr' > ptr
                 /\ buffer' = buffer \o Bytes(input, ptr, ptr') ]_vars
    /\ [](\A i, j \in 1..Len(decoder_calls) :
             i < j => decoder_calls[i].src + decoder_calls[i].consumed
                         <= decoder_calls[j].src)

\* C13 witness: two blocks were decoded and the cursor ended at the end of
\* the body.
C13_Witness ==
    /\ pc = "done"
    /\ Len(decoder_calls) = 2
    /\ ptr = end

\* C14: the decode state is set up on entry to the call and by nothing else;
\* the steps of normalize itself leave it alone, and a decoder call only adds
\* alert bits and takes from the budgets, so what one block set or used up is
\* still so for the next block and at the end of the scan.
C14_DecodeStateThreaded ==
    [][ /\ pc = "configured" =>
              js' = [ allowed_spaces |-> max_javascript_whitespaces,
                      allowed_levels |-> MAX_ALLOWED_OBFUSCATION, alerts |-> {} ]
        /\ pc \in {"loop", "final"} => js' = js
        /\ pc = "decode" =>
              /\ js.alerts \subseteq js'.alerts
              /\ js'.allowed_spaces <= js.allowed_spaces
              /\ js'.allowed_levels <= js.allowed_levels ]_vars

\* C14 witness: the first of two decoded blocks raised the obfuscation alert,
\* the second had no nesting at all, and the alert is still set at the end.
C14_Witness ==
    /\ pc = "done"
    /\ normalizer = "UtilJsNorm"
    /\ Len(decoder_calls) = 2
    /\ decoder_calls[1].levels > MAX_ALLOWED_OBFUSCATION
    /\ decoder_calls[2].levels = 0
    /\ ALERT_LEVELS_EXCEEDED \in js.alerts
    /\ js.allowed_levels = 0

IdentitySoFar ==
    \A i \in 1..Len(decoder_calls) : decoder_calls[i].copied = decoder_calls[i].consumed

\* C18: with a decoder that acts as the identity, the buffer always holds the
\* body up to the scan cursor, and a call that found a JavaScript block
\* returns a buffer equal to the input byte for byte.
C18_IdentityDecoderRoundTrip ==
    IdentitySoFar =>
        /\ pc \in {"loop", "decode", "final"} =>
              (index = ptr /\ buffer = SubSeq(input, 1, ptr))
        /\ pc = "done" =>
              (output.bytes = input /\ output.length = Len(input))

\* C18 witness: a block was decoded as it stood, bytes of the body were left
\* behind the cursor, and the result equals the input.
C18_Witness ==
    /\ pc = "done"
    /\ js_present
    /\ decoder_calls # <<>>
    /\ IdentitySoFar
    /\ decoder_calls[1].consumed > 0
    /\ ptr < end
    /\ output.kind = "buffer"
    /\ output.bytes = input

\* C19: every call ends: each iteration leaves the loop or moves the cursor on
\* by at least the opening keyword and its ">", whatever the decoder consumes,
\* and the output is set once, at the end, and not again.
C19_ScanTerminates ==
    /\ <>(pc = "done")
    /\ [][ (pc = "loop" /\ pc' \in {"loop", "decode"}) =>
              ptr' >= ptr + script_start_length + 1 ]_vars
    /\ [][ (output.kind = "unset") <=> (pc # "done") ]_vars
    /\ [][ output.kind # "unset" => output' = output ]_vars

\* C19 witness: a call ended after two decoder calls that consumed nothing.
C19_Witness ==
    /\ pc = "done"
    /\ Len(decoder_calls) = 2
    /\ decoder_calls[1].consumed = 0
    /\ decoder_calls[2].consumed = 0

\* Both matchers hold their patterns and have been prepped, and the decoder
\* exists.
ConstructionComplete ==
    /\ normalizer # "null"
    /\ javascript_search_mpse = { <<script_start, JS_JAVASCRIPT>> }
    /\ htmltype_search_mpse = html_patterns
    /\ prepped = { "javascript_search_mpse", "htmltype_search_mpse" }

\* C12: whatever the interleaving of the threads that call configure on one
\* object, the decoder and the matchers are constructed once, and whenever
\* the guard is set the construction is complete.
C12_ConfigureOnce ==
    /\ constructions <= 1
    /\ configure_once => ConstructionComplete

\* C15: the backend is the depth-limited one exactly when normalization_depth
\* is not 0 and the legacy one exactly when it is 0, and a call of configure
\* that finds the guard set returns and leaves the backend, both matchers and
\* the guard as they were.
C15_BackendChosenOnce ==
    /\ [](normalizer # "null" =>
            /\ (normalizer = "JsNorm") <=> (normalization_depth # 0)
            /\ (normalizer = "UtilJsNorm") <=> (normalization_depth = 0))
    /\ [][ \A t \in Threads :
             (thread_pc[t] = "check" /\ configure_once /\ thread_pc'[t] # "check") =>
                 /\ thread_pc'[t] = "idle"
                 /\ UNCHANGED << configure_once, normalizer, javascript_search_mpse,
                                 htmltype_search_mpse, constructions, prepped >> ]_vars

\* C15 witness: a thread has come back from its second call of configure, and
\* the one construction there was stands.
C15_Witness ==
    \E t \in Threads :
        /\ thread_calls[t] = 2
        /\ thread_pc[t] = "idle"
        /\ configure_once
        /\ constructions = 1
        /\ ConstructionComplete
        /\ normalizer = "JsNorm"

RECURSIVE Sum(_)
Sum(seq) == IF seq = <<>> THEN 0 ELSE seq[1] + Sum(Tail(seq))

\* C20: a scan returns FLUSH exactly when two or more segments have been
\* scanned since the last reset and their lengths add up to min or more, and
\* SEARCH otherwise; on FLUSH the flush point is the length of the segment
\* just scanned; the first segment after a reset never flushes; min is base
\* plus a flush-bucket size; a scan only adds to the counters, and a scan
\* that follows a FLUSH returns FLUSH.
C20_FlushRule ==
    /\ [](status # "none" =>
            /\ (status = "FLUSH") <=> (Len(scanned) >= 2 /\ Sum(scanned) >= min)
            /\ (status = "SEARCH") <=> ~(Len(scanned) >= 2 /\ Sum(scanned) >= min)
            /\ status = "FLUSH" => fp = scanned[Len(scanned)])
    /\ [](Len(scanned) = 1 => status = "SEARCH")
    /\ [](\E size \in FlushBucketSizes : min = base + size)
    /\ [][ Len(scanned') = Len(scanned) + 1 =>
              /\ segs' = segs + 1
              /\ bytes' = bytes + scanned'[Len(scanned')]
              /\ min' = min
              /\ status = "FLUSH" => status' = "FLUSH" ]_vars

\* C20 witness: the first segment alone reached min and did not flush, the
\* second flushed, and so did the third.
C20_Witness ==
    /\ Len(scanned) = 3
    /\ scanned[1] >= min
    /\ status = "FLUSH"
    /\ fp = scanned[3]
    /\ segs = 3

\* C17: every decoder call is given the range from the scan cursor to the end
\* of the body and the room left in the result buffer: srclen = end - ptr and
\* destlen = input.length() - index, whatever the length of the body.
C17_DecoderGetsWholeRange ==
    \A i \in 1..Len(decoder_calls) :
        /\ decoder_calls[i].srclen = end - decoder_calls[i].src
        /\ decoder_calls[i].destlen = Len(input) - decoder_calls[i].dst

====
